---- MODULE Spec2Model ----
(***************************************************************************)
(* Model of py-ws7: server.py (tornado web server that polls a wavelength  *)
(* meter and pushes the readings to websocket clients) and wlm.py (the     *)
(* WavelengthMeter wrapper with its simulated "debug" mode).               *)
(*                                                                         *)
(* Everything in server.py runs on one tornado IOLoop: a handler or timer  *)
(* callback runs to completion before the loop dispatches the next one.    *)
(* send_data is modelled statement by statement (pc, idx) so that this     *)
(* serialisation is a guard of the model (LoopIdle) and not an assumption. *)
(*                                                                         *)
(* Wavelengths are integers in units of 1e-5 nm.                           *)
(***************************************************************************)
EXTENDS Integers, Naturals, Sequences, FiniteSets, TLC

\* ---------------------------------------------------------------- bounds
MaxConns == 3        \* websocket connections ever made in one run
MaxTicks == 2        \* firings of the PeriodicCallback in one run
MaxItems == 3        \* largest item count the driver reports for a pattern

Conns == 1..MaxConns

\* ------------------------------------------------------- program constants
NumChannels == 8     \* range(8) in WavelengthMeter.wavelengths
SimChannels == 5     \* "if channel > 5: return 0" in GetWavelength

\* 0.0001 nm, the upper end of random.uniform(0, 0.0001), in model units
JitterMax == 10

\* model units per nm
Unit == JitterMax * 10000

\* the simulated table of GetWavelength, in model units
SimTable ==
  << 46086180, 68926430, 67928880, 70720160, 2 * 46086180, 0, 0, 0 >>

\* ------------------------------------------------------------ input grids
\* values random.uniform(0, 0.0001) is sampled at
JitterGrid == {0, 5, JitterMax}

\* one draw of random.uniform per GetWavelength call of a snapshot
JitterVecs ==
  {[ch \in 1..NumChannels |-> u] : u \in JitterGrid}
    \cup {[ch \in 1..NumChannels |-> IF ch % 2 = 1 THEN 0 ELSE JitterMax]}

\* values the driver's GetWavelengthNum answers with (a reading, or one of
\* its non-positive "no value" codes)
DllValues == {0, 53200000}

DllVecs ==
  {[ch \in 1..NumChannels |-> v] : v \in DllValues}
    \cup {[ch \in 1..NumChannels |-> IF ch = 1 THEN 53200000 ELSE 0]}

\* values the driver's GetSwitcherMode answers with
DllSwitcherModes == {0, 1}

\* channel numbers GetWavelength is called with
WlmChannels == -9..9

\* element widths the driver's GetPatternItemSize answers with
ItemSizes == {0, 1, 2, 3, 4, 8, 16}

\* result codes of GetPatternDataNum and values it leaves in the array
DllResults == {0, 1}
DllFill == {0, 7}

\* values random.randint(0, 1000) is sampled at
RandGrid == {0, 1000}

\* channel arguments given to the wlm.py command line
CliArgs == {<< >>, << 2, 5 >>} \cup {<< ch >> : ch \in 1..8}

\* integers a client asks /api/<n>/ for while the server broadcasts
ChannelInputs == {-1, 2, 8, 9, 10}

\* integers a client asks /api/<n>/ for on a server without subscribers
QueryInputs == -19..29

VARIABLES
  debug,        \* WavelengthMeter.debug, fixed at construction
  conn,         \* state of each websocket connection object
  clients,      \* server.py: the module-level list clients
  pc,           \* what the IOLoop is running: idle, sending, done, query
  idx,          \* position of the iterator of "for c in clients" (1-based)
  data,         \* send_data's local: the snapshot polled by this tick
  tick,         \* number of send_data calls started
  finished,     \* number of send_data calls that have returned
  tickMembers,  \* clients as it was when the running tick started
  sent,         \* write_message calls of the running tick that returned
  failed,       \* connections whose write_message raised in this tick
  polls,        \* reads of wlmeter.wavelengths made by the running tick
  outcome,      \* how the running tick ended: none, empty, ok, raised
  inbox,        \* per connection, the ticks whose payload it was handed
  err,          \* exception raised by the last on_close, or "none"
  req,          \* the request being answered
  resp,         \* response of the request being answered
  boot,         \* steps of server.py's __main__ executed so far
  call          \* the wlm.py operation just performed, with its result

vars == << debug, boot, call, conn, clients, pc, idx, data, tick, finished, tickMembers,
           sent, failed, polls, outcome, inbox, err, req, resp >>

tickVars == << idx, data, tick, finished, tickMembers, sent, failed, polls,
               outcome, inbox >>

\* ------------------------------------------------------------ wlm.py
\* Python list indexing with a 0-based index i, negative indices counting
\* from the end; ok = FALSE stands for IndexError.
PyIndex(list, i) ==
  IF i >= 0 /\ i < Len(list) THEN [ok |-> TRUE, val |-> list[i + 1]]
  ELSE IF i < 0 /\ i >= -Len(list)
       THEN [ok |-> TRUE, val |-> list[Len(list) + i + 1]]
       ELSE [ok |-> FALSE, val |-> 0]

\* WavelengthMeter.GetWavelength(channel); raw is what the driver answers
\* (hardware) or the draw of random.uniform (simulated).
GetWavelength(dbg, channel, raw) ==
  IF ~dbg THEN [ok |-> TRUE, val |-> raw]
  ELSE IF channel > SimChannels THEN [ok |-> TRUE, val |-> 0]
  ELSE LET e == PyIndex(SimTable, channel - 1)
       IN IF e.ok THEN [ok |-> TRUE, val |-> e.val + channel * raw]
          ELSE e

\* mutant: the snapshot reads GetWavelength(i) instead of GetWavelength(i+1)
wavelengths_ZeroBased(dbg, rawvec) ==
  [i \in 1..NumChannels |-> GetWavelength(dbg, i - 1, rawvec[i]).val]

\* mutant: the snapshot is built over range(1, 8), one channel short
wavelengths_Seven(dbg, rawvec) ==
  [i \in 1..(NumChannels - 1) |-> GetWavelength(dbg, i, rawvec[i]).val]

\* WavelengthMeter.wavelengths: [GetWavelength(i + 1) for i in range(8)]
wavelengths(dbg, rawvec) ==
  [i \in 1..NumChannels |-> GetWavelength(dbg, i, rawvec[i]).val]

\* WavelengthMeter.switcher_mode (getter)
switcher_mode(dbg, rawmode) == IF ~dbg THEN rawmode ELSE 0

\* what one poll of the instrument can draw
RawVecs(dbg) == IF dbg THEN JitterVecs ELSE DllVecs
RawModes(dbg) == IF dbg THEN {0} ELSE DllSwitcherModes

\* ------------------------------------------------------------ server.py
\* json.dumps of a list of numbers: "[" x1 ", " x2 ... "]" as tokens
RECURSIVE JsonItems(_, _)
JsonItems(list, i) ==
  IF i > Len(list) THEN << >>
  ELSE (IF i = 1 THEN << >> ELSE << "," >>)
         \o << [num |-> list[i]] >> \o JsonItems(list, i + 1)

JsonDumps(list) == << "[" >> \o JsonItems(list, 1) \o << "]" >>

\* mutant: callbacks are dispatched while another one is running
LoopIdle_Concurrent == TRUE

\* The IOLoop runs one callback at a time (IOLoop.instance().start()).
LoopIdle == pc = "idle"

\* no request is being answered
NoReq == [kind |-> "none", n |-> 0]

\* server.py's __main__ has run up to IOLoop.instance().start()
Booted == << "construct", "listen", "timer", "loop" >>

\* no wlm.py operation has been performed
NoCall == [op |-> "none"]

NoResp ==
  [status |-> 0, kind |-> "none", wavelengths |-> << >>, sw |-> 0,
   text |-> << >>, polls |-> 0, swreads |-> 0]

Init ==
  /\ debug \in BOOLEAN
  /\ conn = [c \in Conns |-> "new"]
  /\ clients = << >>
  /\ pc = "idle"
  /\ idx = 0
  /\ data = << >>
  /\ tick = 0
  /\ finished = 0
  /\ tickMembers = << >>
  /\ sent = << >>
  /\ failed = {}
  /\ polls = 0
  /\ outcome = "none"
  /\ inbox = [c \in Conns |-> << >>]
  /\ err = "none"
  /\ req = NoReq
  /\ resp = NoResp
  /\ boot = Booted
  /\ call = NoCall

\* connection objects are created one after the other
NextConn(c) == conn[c] = "new" /\ \A d \in Conns : d < c => conn[d] # "new"

\* mutant: open registers the connection twice
open_Twice(c) ==
  /\ LoopIdle
  /\ NextConn(c)
  /\ conn' = [conn EXCEPT ![c] = "open"]
  /\ clients' = Append(Append(clients, c), c)
  /\ UNCHANGED << debug, boot, call, pc, tickVars, err, req, resp >>

\* WsHandler.open: the handshake succeeded
open(c) ==
  /\ LoopIdle
  /\ NextConn(c)
  /\ conn' = [conn EXCEPT ![c] = "open"]
  /\ clients' = Append(clients, c)
  /\ UNCHANGED << debug, boot, call, pc, tickVars, err, req, resp >>

\* The handshake of a new connection is aborted before open() is called
\* (tornado closes the stream; the close callback is queued on the loop).
handshake_abort(c) ==
  /\ LoopIdle
  /\ NextConn(c)
  /\ conn' = [conn EXCEPT ![c] = "aborted"]
  /\ UNCHANGED << debug, boot, call, clients, pc, tickVars, err, req, resp >>

\* The loop sees the stream of an open connection closed (peer gone, close
\* frame): from now on write_message raises WebSocketClosedError, and the
\* close callback that will call on_close is queued on the loop.
connection_lost(c) ==
  /\ LoopIdle
  /\ conn[c] = "open"
  /\ conn' = [conn EXCEPT ![c] = "closing"]
  /\ UNCHANGED << debug, boot, call, clients, pc, tickVars, err, req, resp >>

\* list.remove(x): drops the first occurrence of x; ok = FALSE stands for
\* ValueError, which leaves the list as it was.
RECURSIVE RemoveFirst(_, _)
RemoveFirst(list, x) ==
  IF list = << >> THEN << >>
  ELSE IF Head(list) = x THEN Tail(list)
       ELSE << Head(list) >> \o RemoveFirst(Tail(list), x)

ListRemove(list, x) ==
  IF \E i \in 1..Len(list) : list[i] = x
  THEN [ok |-> TRUE, list |-> RemoveFirst(list, x)]
  ELSE [ok |-> FALSE, list |-> list]

\* mutant: on_close forgets clients.remove(self)
on_close_NoRemove(c) ==
  /\ LoopIdle
  /\ conn[c] \in {"closing", "aborted"}
  /\ conn' = [conn EXCEPT ![c] = "closed"]
  /\ UNCHANGED << debug, boot, call, clients, pc, tickVars, err, req, resp >>

\* WsHandler.on_close: clients.remove(self); called once per connection,
\* from the queued close callback.
on_close(c) ==
  /\ LoopIdle
  /\ conn[c] \in {"closing", "aborted"}
  /\ LET r == ListRemove(clients, c)
     IN /\ clients' = r.list
        /\ err' = IF r.ok THEN "none" ELSE "ValueError"
  /\ conn' = [conn EXCEPT ![c] = "closed"]
  /\ UNCHANGED << debug, boot, call, pc, tickVars, req, resp >>

\* c.write_message(...) returns normally only on a connection that is open;
\* otherwise it raises WebSocketClosedError.
WriteOk(c) == conn[c] = "open"

\* mutant: the payload overtakes the ones handed over before
Deliver_Front(box, t) == << t >> \o box

\* what write_message hands to connection c: the payload of tick t
Deliver(box, t) == Append(box, t)

\* mutant: send_data polls without looking at len(clients)
send_data_begin_AlwaysPoll ==
  /\ LoopIdle
  /\ tick < MaxTicks
  /\ tick' = tick + 1
  /\ tickMembers' = clients
  /\ sent' = << >>
  /\ failed' = {}
  /\ \E raw \in RawVecs(debug) : data' = wavelengths(debug, raw)
  /\ polls' = 1
  /\ pc' = "sending"
  /\ idx' = 1
  /\ outcome' = "none"
  /\ UNCHANGED << debug, boot, call, conn, clients, finished, inbox, err, req, resp >>

\* send_data, lines 16-17: "if len(clients)>0: data = wlmeter.wavelengths"
send_data_begin ==
  /\ LoopIdle
  /\ tick < MaxTicks
  /\ tick' = tick + 1
  /\ tickMembers' = clients
  /\ sent' = << >>
  /\ failed' = {}
  /\ IF Len(clients) > 0
     THEN /\ \E raw \in RawVecs(debug) : data' = wavelengths(debug, raw)
          /\ polls' = 1
          /\ pc' = "sending"
          /\ idx' = 1
          /\ outcome' = "none"
     ELSE /\ data' = << >>
          /\ polls' = 0
          /\ pc' = "done"
          /\ idx' = 0
          /\ outcome' = "empty"
  /\ UNCHANGED << debug, boot, call, conn, clients, finished, inbox, err, req, resp >>

\* send_data, lines 18-19: one iteration of "for c in clients" whose
\* c.write_message(json.dumps(data)) returns
send_data_send ==
  /\ pc = "sending"
  /\ idx <= Len(clients)
  /\ WriteOk(clients[idx])
  /\ sent' = Append(sent, [to |-> clients[idx], payload |-> JsonDumps(data)])
  /\ inbox' = [inbox EXCEPT ![clients[idx]] = Deliver(@, tick)]
  /\ idx' = idx + 1
  /\ UNCHANGED << debug, boot, call, conn, clients, pc, data, tick, finished,
                  tickMembers, failed, polls, outcome, err, req, resp >>

\* send_data, line 19: write_message raises; nothing in send_data catches
\* it, so the loop over clients is left and send_data ends (PeriodicCallback
\* logs the exception).
send_data_raise ==
  /\ pc = "sending"
  /\ idx <= Len(clients)
  /\ ~WriteOk(clients[idx])
  /\ failed' = failed \cup {clients[idx]}
  /\ pc' = "done"
  /\ outcome' = "raised"
  /\ UNCHANGED << debug, boot, call, conn, clients, idx, data, tick, finished,
                  tickMembers, sent, polls, inbox, err, req, resp >>

\* send_data, line 18: the iterator is exhausted
send_data_end ==
  /\ pc = "sending"
  /\ idx > Len(clients)
  /\ pc' = "done"
  /\ outcome' = "ok"
  /\ UNCHANGED << debug, boot, call, conn, clients, idx, data, tick, finished,
                  tickMembers, sent, failed, polls, inbox, err, req, resp >>

\* send_data has returned to PeriodicCallback, which schedules the next
\* call; the locals of the call are gone.
send_data_return ==
  /\ pc = "done"
  /\ pc' = "idle"
  /\ finished' = finished + 1
  /\ idx' = 0
  /\ data' = << >>
  /\ tickMembers' = << >>
  /\ sent' = << >>
  /\ failed' = {}
  /\ polls' = 0
  /\ outcome' = "none"
  /\ UNCHANGED << debug, boot, call, conn, clients, tick, inbox, err, req, resp >>

\* ------------------------------------------------------- the query path
DigitChars == << "0", "1", "2", "3", "4", "5", "6", "7", "8", "9" >>

\* decimal text of an integer, as it appears in a URL
RECURSIVE NatToStr(_)
NatToStr(n) ==
  IF n < 10 THEN << DigitChars[n + 1] >>
  ELSE NatToStr(n \div 10) \o << DigitChars[(n % 10) + 1] >>

IntToStr(n) == IF n < 0 THEN << "-" >> \o NatToStr(-n) ELSE NatToStr(n)

DigitVal(ch) == (CHOOSE k \in 1..10 : DigitChars[k] = ch) - 1

IsDigit(ch) == \E k \in 1..10 : DigitChars[k] = ch

\* int(channel) of a string of decimal digits with an optional sign
RECURSIVE DigitsToNat(_, _)
DigitsToNat(str, acc) ==
  IF str = << >> THEN acc
  ELSE DigitsToNat(Tail(str), 10 * acc + DigitVal(Head(str)))

StrToInt(str) ==
  IF Head(str) = "-" THEN -DigitsToNat(Tail(str), 0) ELSE DigitsToNat(str, 0)

\* make_app: the URL pattern "api/(\d)/" matches a segment that is exactly
\* one decimal digit; "api/" matches the path without a segment.
RouteMatchesChannel(seg) == Len(seg) = 1 /\ IsDigit(seg[1])

\* "%.8f" % x for x in model units: sign, integer part, 8 fraction digits
Format8(x) ==
  LET a == IF x < 0 THEN -x ELSE x
  IN [neg |-> x < 0, int |-> a \div Unit,
      frac8 |-> (a % Unit) * (100000000 \div Unit)]

\* mutant: get validates the channel before it polls the instrument
ApiGet_ValidateFirst(dbg, hasChannel, seg, rawvec, rawmode) ==
  LET w == wavelengths(dbg, rawvec)
      sw == switcher_mode(dbg, rawmode)
      base == [NoResp EXCEPT !.status = 200, !.polls = 1, !.swreads = 1]
  IN IF ~hasChannel
     THEN [base EXCEPT !.kind = "snapshot", !.wavelengths = w, !.sw = sw]
     ELSE LET ch == StrToInt(seg)
          IN IF ch >= 0 /\ ch < NumChannels
             THEN [base EXCEPT !.kind = "value",
                               !.text = << Format8(w[ch + 1]) >>]
             ELSE [NoResp EXCEPT !.status = 400, !.kind = "Wrong channel"]

\* ApiHandler.get(channel): hasChannel = FALSE stands for channel=None
ApiGet(dbg, hasChannel, seg, rawvec, rawmode) ==
  LET w == wavelengths(dbg, rawvec)
      sw == switcher_mode(dbg, rawmode)
      base == [NoResp EXCEPT !.status = 200, !.polls = 1, !.swreads = 1]
  IN IF ~hasChannel
     THEN [base EXCEPT !.kind = "snapshot", !.wavelengths = w, !.sw = sw]
     ELSE LET ch == StrToInt(seg)
          IN IF ch >= 0 /\ ch < Len(w)
             THEN [base EXCEPT !.kind = "value",
                               !.text = << Format8(w[ch + 1]) >>]
             ELSE [base EXCEPT !.status = 400, !.kind = "Wrong channel"]

\* tornado's answer to a path no URL pattern matches
NotFound == [NoResp EXCEPT !.status = 404, !.kind = "Not Found"]

\* mutant: the handler keeps its snapshot in the variable send_data uses
api_snapshot_SharesData ==
  /\ LoopIdle
  /\ \E raw \in RawVecs(debug), m \in RawModes(debug) :
       /\ resp' = ApiGet(debug, FALSE, << >>, raw, m)
       /\ data' = wavelengths(debug, raw)
  /\ req' = [kind |-> "snapshot", n |-> 0]
  /\ pc' = "query"
  /\ UNCHANGED << debug, boot, call, conn, clients, idx, tick, finished, tickMembers,
                  sent, failed, polls, outcome, inbox, err >>

\* GET <root>api/ : the whole snapshot
api_snapshot ==
  /\ LoopIdle
  /\ \E raw \in RawVecs(debug), m \in RawModes(debug) :
       resp' = ApiGet(debug, FALSE, << >>, raw, m)
  /\ req' = [kind |-> "snapshot", n |-> 0]
  /\ pc' = "query"
  /\ UNCHANGED << debug, boot, call, conn, clients, tickVars, err >>

\* GET <root>api/<n>/ for an integer n
api_channel(n) ==
  /\ LoopIdle
  /\ LET seg == IntToStr(n)
     IN IF RouteMatchesChannel(seg)
        THEN \E raw \in RawVecs(debug), m \in RawModes(debug) :
               resp' = ApiGet(debug, TRUE, seg, raw, m)
        ELSE resp' = NotFound
  /\ req' = [kind |-> "channel", n |-> n]
  /\ pc' = "query"
  /\ UNCHANGED << debug, boot, call, conn, clients, tickVars, err >>

\* the response has been written out and the handler is finished
finish_request ==
  /\ pc = "query"
  /\ pc' = "idle"
  /\ req' = NoReq
  /\ resp' = NoResp
  /\ UNCHANGED << debug, boot, call, conn, clients, tickVars, err >>

Next ==
  \/ \E c \in Conns : open(c)
  \/ \E c \in Conns : handshake_abort(c)
  \/ \E c \in Conns : connection_lost(c)
  \/ \E c \in Conns : on_close(c)
  \/ send_data_begin
  \/ send_data_send
  \/ send_data_raise
  \/ send_data_end
  \/ send_data_return
  \/ api_snapshot
  \/ \E n \in ChannelInputs : api_channel(n)
  \/ finish_request

Spec == Init /\ [][Next]_vars

\* ------------------------------------------------ the query path alone
\* the server answering requests while no websocket client connects
NextQuery ==
  \/ api_snapshot
  \/ \E n \in QueryInputs : api_channel(n)
  \/ finish_request

SpecQuery == Init /\ [][NextQuery]_vars

\* ------------------------------------------------ wlm.py used on its own
\* mutant: an unsupported element width falls back to c_ulong
GetPatternData_DefaultType(dbg, count, size, result, fill, rnd) ==
  IF dbg
  THEN [ok |-> TRUE, result |-> 0, list |-> [k \in 1..10 |-> rnd],
        calls |-> << >>]
  ELSE LET asked == << "GetPatternItemCount", "GetPatternItemSize" >>
       IN IF count = 0 \/ size = 0
          THEN [ok |-> TRUE, result |-> 0, list |-> << >>, calls |-> asked]
          ELSE [ok |-> TRUE, result |-> result,
                list |-> [k \in 1..count |-> fill],
                calls |-> asked \o << "SetPattern", "GetPatternDataNum" >>]

\* WavelengthMeter.GetPatternData: count and size are what the driver
\* answers to GetPatternItemCount and GetPatternItemSize, result and fill
\* what GetPatternDataNum returns and writes, rnd the draw of randint;
\* ok = FALSE stands for ValueError.
GetPatternData(dbg, count, size, result, fill, rnd) ==
  IF dbg
  THEN [ok |-> TRUE, result |-> 0, list |-> [k \in 1..10 |-> rnd],
        calls |-> << >>]
  ELSE LET asked == << "GetPatternItemCount", "GetPatternItemSize" >>
       IN IF count = 0 \/ size = 0
          THEN [ok |-> TRUE, result |-> 0, list |-> << >>, calls |-> asked]
          ELSE IF size \notin {2, 4, 8}
          THEN [ok |-> FALSE, result |-> 0, list |-> << >>, calls |-> asked]
          ELSE [ok |-> TRUE, result |-> result,
                list |-> [k \in 1..count |-> fill],
                calls |-> asked \o << "SetPattern", "GetPatternDataNum" >>]

\* wlm.py __main__, lines 174-175: one "print(... wlm.wavelengths[i])" per
\* requested channel, each reading a fresh snapshot (rawA and rawB in
\* turn); ok = FALSE stands for IndexError, which ends the program.
RECURSIVE CliLines(_, _, _, _, _)
CliLines(dbg, chans, k, rawA, rawB) ==
  IF k > Len(chans) THEN [ok |-> TRUE, lines |-> << >>]
  ELSE LET raw == IF k % 2 = 1 THEN rawA ELSE rawB
           e == PyIndex(wavelengths(dbg, raw), chans[k])
       IN IF ~e.ok THEN [ok |-> FALSE, lines |-> << >>]
          ELSE LET rest == CliLines(dbg, chans, k + 1, rawA, rawB)
               IN [ok |-> rest.ok,
                   lines |-> << [label |-> chans[k], val |-> e.val] >>
                               \o rest.lines]

\* wlm.py __main__, lines 161-177: channels defaults to range(1, 8); after
\* the loop it prints wlm.wavelengths[1:6:2]
CliRun(dbg, args, rawA, rawB) ==
  LET chans == IF args = << >> THEN << 1, 2, 3, 4, 5, 6, 7 >> ELSE args
      r == CliLines(dbg, chans, 1, rawA, rawB)
      w == wavelengths(dbg, rawA)
  IN [ok |-> r.ok, lines |-> r.lines,
      tail |-> IF r.ok THEN << w[2], w[4], w[6] >> ELSE << >>]

otherVars == << debug, boot, conn, clients, pc, tickVars, err, req, resp >>

\* a program that has constructed a WavelengthMeter and nothing else
InitWlm ==
  /\ debug \in BOOLEAN
  /\ conn = [c \in Conns |-> "new"]
  /\ clients = << >>
  /\ pc = "start"
  /\ idx = 0
  /\ data = << >>
  /\ tick = 0
  /\ finished = 0
  /\ tickMembers = << >>
  /\ sent = << >>
  /\ failed = {}
  /\ polls = 0
  /\ outcome = "none"
  /\ inbox = [c \in Conns |-> << >>]
  /\ err = "none"
  /\ req = NoReq
  /\ resp = NoResp
  /\ boot = << >>
  /\ call = NoCall

\* a call of wlm.GetWavelength(ch)
wlm_GetWavelength(ch) ==
  /\ \E raw \in (IF debug THEN JitterGrid ELSE DllValues) :
       LET r == GetWavelength(debug, ch, raw)
       IN call' = [op |-> "GetWavelength", channel |-> ch, raw |-> raw,
                   ok |-> r.ok, val |-> r.val]
  /\ UNCHANGED otherVars

\* a call of wlm.GetPatternData(...)
wlm_GetPatternData ==
  /\ \E count \in 0..MaxItems, size \in ItemSizes, result \in DllResults,
        fill \in DllFill, rnd \in RandGrid :
       LET r == GetPatternData(debug, count, size, result, fill, rnd)
       IN call' = [op |-> "GetPatternData", count |-> count, size |-> size,
                   ok |-> r.ok, result |-> r.result, list |-> r.list,
                   calls |-> r.calls]
  /\ UNCHANGED otherVars

\* a run of "python wlm.py [--debug] [ch ...]"
wlm_cli(args) ==
  /\ \E rawA \in RawVecs(debug), rawB \in RawVecs(debug) :
       LET r == CliRun(debug, args, rawA, rawB)
       IN call' = [op |-> "cli", args |-> args, rawA |-> rawA, rawB |-> rawB,
                   ok |-> r.ok, lines |-> r.lines, tail |-> r.tail]
  /\ UNCHANGED otherVars

NextWlm ==
  \/ \E ch \in WlmChannels : wlm_GetWavelength(ch)
  \/ wlm_GetPatternData
  \/ \E args \in CliArgs : wlm_cli(args)

SpecWlm == InitWlm /\ [][NextWlm]_vars

\* ------------------------------------------------ server.py's __main__
serverVars == << conn, clients, tickVars, err, req, resp, call >>

\* the process as it is started, before WavelengthMeter is constructed
InitBoot ==
  /\ debug \in BOOLEAN
  /\ conn = [c \in Conns |-> "new"]
  /\ clients = << >>
  /\ pc = "start"
  /\ idx = 0
  /\ data = << >>
  /\ tick = 0
  /\ finished = 0
  /\ tickMembers = << >>
  /\ sent = << >>
  /\ failed = {}
  /\ polls = 0
  /\ outcome = "none"
  /\ inbox = [c \in Conns |-> << >>]
  /\ err = "none"
  /\ req = NoReq
  /\ resp = NoResp
  /\ boot = << >>
  /\ call = NoCall

\* WavelengthMeter.__init__ returns: debug mode, or ctypes.WinDLL loaded
\* the driver
construct_ok ==
  /\ pc = "start"
  /\ boot' = Append(boot, "construct")
  /\ pc' = "constructed"
  /\ UNCHANGED << debug, serverVars >>

\* mutant: the failure to load the driver is swallowed
construct_fail_Swallowed ==
  /\ pc = "start"
  /\ ~debug
  /\ boot' = Append(boot, "load_failed")
  /\ pc' = "constructed"
  /\ UNCHANGED << debug, serverVars >>

\* WavelengthMeter.__init__ with debug false: ctypes.WinDLL(dllpath) raises
\* OSError, nothing in __main__ catches it, the process ends
construct_fail ==
  /\ pc = "start"
  /\ ~debug
  /\ boot' = Append(boot, "load_failed")
  /\ pc' = "crashed"
  /\ UNCHANGED << debug, serverVars >>

\* app = make_app(config); app.listen(config["port"])
listen ==
  /\ pc = "constructed"
  /\ boot' = Append(boot, "listen")
  /\ pc' = "listening"
  /\ UNCHANGED << debug, serverVars >>

\* PeriodicCallback(send_data, ...).start()
start_timer ==
  /\ pc = "listening"
  /\ boot' = Append(boot, "timer")
  /\ pc' = "timer"
  /\ UNCHANGED << debug, serverVars >>

\* tornado.ioloop.IOLoop.instance().start(): from here on the loop
\* dispatches timer, connection and request events
loop_start ==
  /\ pc = "timer"
  /\ boot' = Append(boot, "loop")
  /\ pc' = "idle"
  /\ UNCHANGED << debug, serverVars >>

NextBoot ==
  \/ construct_ok
  \/ construct_fail
  \/ listen
  \/ start_timer
  \/ loop_start
  \/ Next

SpecBoot == InitBoot /\ [][NextBoot]_vars

\* ------------------------------------------------------------ helpers
Members(list) == {list[i] : i \in DOMAIN list}

\* number of payloads of the running tick handed to connection s
GotCount(s) == Cardinality({i \in DOMAIN sent : sent[i].to = s})

TickOver == pc = "done"

TypeOK ==
  /\ debug \in BOOLEAN
  /\ conn \in [Conns -> {"new", "open", "closing", "aborted", "closed"}]
  /\ pc \in {"idle", "sending", "done", "query", "start", "constructed",
             "listening", "timer", "crashed"}
  /\ tick \in 0..MaxTicks
  /\ finished \in 0..MaxTicks

\* ------------------------------------------------------------ claims

\* C1: when a tick is over, every subscriber that was registered for it and
\* whose own send succeeds has been handed the tick's payload, also when the
\* send to another registered subscriber failed.
C1_FailedSendDoesNotAbort ==
  TickOver =>
    \A s \in Members(tickMembers) : WriteOk(s) => GotCount(s) >= 1

\* C2: when a tick is over, a subscriber whose send failed in that tick is
\* no longer in the registry.
C2_FailedSubscriberRemoved ==
  TickOver => \A s \in failed : s \notin Members(clients)

\* C3: a tick over N registered subscribers (N those with an open
\* connection) hands out exactly N payloads, exactly one to each of them,
\* all the serialization of the one snapshot polled by the tick.
C3_ExactlyNPayloads ==
  (TickOver /\ Len(tickMembers) > 0) =>
    LET live == {s \in Members(tickMembers) : WriteOk(s)}
    IN /\ Len(sent) = Cardinality(live)
       /\ \A s \in live : GotCount(s) = 1
       /\ \A i \in DOMAIN sent : sent[i].payload = JsonDumps(data)

\* C4: a tick reads the snapshot 0 times when the registry is empty at the
\* tick and exactly once otherwise, whatever the number of subscribers; a
\* tick over an empty registry sends nothing.
C4_PollsPerTick ==
  (pc \in {"sending", "done"}) =>
    /\ polls = (IF Len(tickMembers) = 0 THEN 0 ELSE 1)
    /\ Len(tickMembers) = 0 => sent = << >>

C4_Witness ==
  /\ TickOver
  /\ outcome = "ok"
  /\ Len(tickMembers) >= 2
  /\ Len(sent) = Len(tickMembers)
  /\ polls = 1

\* C5: no close of a connection raises an error, whether or not the
\* connection is in the registry.
C5_RemoveNeverRaises == err = "none"

\* C6: a single-channel query for an integer outside 0..7 is answered with
\* status 400 and the error "Wrong channel".
C6_WrongChannelAnswer ==
  (pc = "query" /\ req.kind = "channel" /\ req.n \notin 0..(NumChannels - 1))
    => (resp.status = 400 /\ resp.kind = "Wrong channel")

C8_TicksNeverOverlap ==
  /\ pc \in {"sending", "done"} => tick = finished + 1
  /\ pc \notin {"sending", "done"} => tick = finished

C8_Witness ==
  /\ pc = "sending"
  /\ tick = 2
  /\ finished = 1
  /\ idx > 1
  /\ \E c \in Conns : inbox[c] = << 1, 2 >>

\* C9: every subscriber is handed the payloads of the ticks in the order
\* of the ticks.
C9_InOrder ==
  \A c \in Conns : \A i, j \in DOMAIN inbox[c] :
    i < j => inbox[c][i] < inbox[c][j]

C9_Witness ==
  \E c \in Conns : Len(inbox[c]) >= 2 /\ inbox[c][1] = 1 /\ inbox[c][2] = 2

\* C10: once the close of a subscriber has been processed it is not in the
\* registry and no later step hands it a payload.
C10_RemovalImmediate ==
  [][\A c \in Conns :
       /\ conn'[c] = "closed" => c \notin Members(clients')
       /\ conn[c] = "closed" => inbox'[c] = inbox[c]]_vars

C10_Witness ==
  /\ TickOver
  /\ tick = 2
  /\ sent # << >>
  /\ \E c \in Conns : conn[c] = "closed" /\ inbox[c] = << 1 >>

\* C11: the answer to the whole-snapshot query holds exactly 8 wavelength
\* values and one integer switcher mode, on the simulated and on the
\* hardware source.
C11_SnapshotShape ==
  (pc = "query" /\ req.kind = "snapshot") =>
    /\ resp.kind = "snapshot"
    /\ resp.status = 200
    /\ Len(resp.wavelengths) = 8
    /\ \A i \in 1..8 : resp.wavelengths[i] \in Int
    /\ resp.sw \in Int

C11_Witness ==
  /\ pc = "query"
  /\ req.kind = "snapshot"
  /\ ~debug
  /\ resp.sw = 1
  /\ resp.wavelengths[1] # resp.wavelengths[2]

\* the number a client reads back from the text "%.8f" produced
ParseFixed(t) ==
  (IF t.neg THEN -1 ELSE 1)
    * (t.int * Unit + t.frac8 \div (100000000 \div Unit))

\* C12: on the simulated source the single-channel query for a 0-based
\* index i in 0..7 answers a value v with
\* base[i] <= v <= base[i] + (i+1) * 0.0001, base the simulated table.
C12_SimulatedJitterBound ==
  (pc = "query" /\ debug /\ req.kind = "channel" /\ req.n \in 0..7) =>
    /\ resp.kind = "value"
    /\ resp.status = 200
    /\ LET v == ParseFixed(resp.text[1])
           base == SimTable[req.n + 1]
       IN base <= v /\ v <= base + (req.n + 1) * JitterMax

C12_Witness ==
  /\ pc = "query"
  /\ debug
  /\ req.kind = "channel"
  /\ req.n = 2
  /\ resp.kind = "value"
  /\ ParseFixed(resp.text[1]) = 67928880 + 3 * JitterMax

\* C14: a query (snapshot, valid channel, invalid channel) leaves the
\* registry and everything of the broadcast path unchanged and sends
\* nothing; a step of a broadcast tick leaves the query's request and
\* response and the instrument mode unchanged.
C14_QueryBroadcastIndependent ==
  [][/\ (pc = "query" \/ pc' = "query") =>
          (clients' = clients /\ conn' = conn /\ tickVars' = tickVars)
     /\ (pc \in {"sending", "done"} \/ pc' \in {"sending", "done"}) =>
          (req' = req /\ resp' = resp /\ debug' = debug)]_vars

C14_Witness ==
  /\ pc = "query"
  /\ resp.kind \in {"value", "Wrong channel"}
  /\ Len(clients) >= 1
  /\ finished >= 1
  /\ \E c \in Conns : inbox[c] # << >>

\* C18: the registry holds each connection that has been opened and whose
\* close has not been processed exactly once, and nothing else.
C18_RegistryMembership ==
  /\ \A c \in Conns :
       (conn[c] \in {"open", "closing"}) <=>
         (Cardinality({i \in DOMAIN clients : clients[i] = c}) = 1)
  /\ \A i \in DOMAIN clients : conn[clients[i]] \in {"open", "closing"}

C18_Witness ==
  /\ Len(clients) = 1
  /\ \E c \in Conns : conn[c] = "closed" /\ inbox[c] # << >>
  /\ \E c \in Conns : conn[c] = "closed" /\ err = "ValueError"
  /\ finished >= 1

\* C19: every call of ApiHandler.get reads the wavelength snapshot exactly
\* once and the switcher mode exactly once, whatever it answers: snapshot,
\* one channel, or the Wrong channel error.
C19_QueryPollsFirst ==
  (pc = "query" /\ resp.kind \in {"snapshot", "value", "Wrong channel"}) =>
    (resp.polls = 1 /\ resp.swreads = 1)

C19_Witness ==
  /\ pc = "query"
  /\ req.kind = "channel"
  /\ req.n = 9
  /\ resp.kind = "Wrong channel"
  /\ resp.polls = 1
  /\ resp.swreads = 1

\* C13: when the driver cannot be loaded in non-simulated mode the process
\* ends there: it never listens, never starts the broadcast timer or the
\* loop, polls nothing, answers no query and fires no tick.
C13_DriverFailureIsFatal ==
  (\E i \in DOMAIN boot : boot[i] = "load_failed") =>
    /\ ~debug
    /\ pc = "crashed"
    /\ boot = << "load_failed" >>
    /\ tick = 0
    /\ polls = 0
    /\ data = << >>
    /\ req = NoReq
    /\ resp = NoResp
    /\ clients = << >>

C13_Witness ==
  /\ ~debug
  /\ pc = "crashed"
  /\ boot = << "load_failed" >>

\* C15: on the simulated source GetWavelength returns exactly 0, without
\* an error, for every channel outside 1..5.
C15_UnsupportedChannelIsZero ==
  (call.op = "GetWavelength" /\ debug /\ call.channel \notin 1..SimChannels)
    => (call.ok /\ call.val = 0)

Unsupported(c) ==
  /\ c.op = "GetPatternData"
  /\ ~debug
  /\ c.size \notin {2, 4, 8}

NoTransfer(c) ==
  \A i \in DOMAIN c.calls : c.calls[i] \notin {"SetPattern", "GetPatternDataNum"}

\* C16 as claimed: on the hardware source every element width other than
\* 2, 4 or 8 makes GetPatternData fail without a SetPattern or
\* GetPatternDataNum call, for every item count including 0.
C16_UnsupportedWidthAlwaysFatal ==
  Unsupported(call) => (~call.ok /\ NoTransfer(call))

\* C16 as amended: with a non-zero item count and a non-zero width other
\* than 2, 4 or 8 GetPatternData fails without a SetPattern or
\* GetPatternDataNum call; with item count 0 or width 0 it returns
\* (0, []) and makes neither call.
C16_UnsupportedWidthFatal ==
  (call.op = "GetPatternData" /\ ~debug) =>
    /\ (Unsupported(call) /\ call.count # 0 /\ call.size # 0) =>
         (~call.ok /\ NoTransfer(call))
    /\ (call.count = 0 \/ call.size = 0) =>
         (call.ok /\ call.result = 0 /\ call.list = << >> /\ NoTransfer(call))

C16_Witness ==
  /\ Unsupported(call)
  /\ call.count = 2
  /\ call.size = 3
  /\ ~call.ok

\* C17: the command line prints, for every requested channel ch in 1..8,
\* the value GetWavelength(ch) yields, without error, and with no channel
\* arguments it prints the channels 1 to 8.
C17_CliChannelsOneBased ==
  (call.op = "cli") =>
    /\ call.ok
    /\ LET want == IF call.args = << >>
                   THEN << 1, 2, 3, 4, 5, 6, 7, 8 >> ELSE call.args
       IN /\ Len(call.lines) = Len(want)
          /\ \A k \in DOMAIN call.lines :
               LET raw == IF k % 2 = 1 THEN call.rawA ELSE call.rawB
               IN /\ call.lines[k].label = want[k]
                  /\ call.lines[k].val =
                       GetWavelength(debug, want[k], raw[want[k]]).val

====
